---- MODULE Spec2Model ----
(***************************************************************************)
(* FlashFIFO: a persistent FIFO byte queue in NOR flash (FIFO.c, FIFO.h).   *)
(* The model follows the last revision of FIFO.c (src/unnamed/part_003,     *)
(* lines 470-1326) for one file, FILE_ROOT_BLOCK, on the flash of           *)
(* Test/flash_port_mock.c.  Every C function is one operator that maps a    *)
(* machine record (flash image, handle, power budget, outputs) to the       *)
(* machine record after the call.                                           *)
(***************************************************************************)
EXTENDS Integers, Sequences, FiniteSets

VARIABLES
    flash,      \* store[]: the bytes of the chip that the file can reach
    handle,     \* the file_handle_t of the open handle, or NoHandle
    open_handles, \* open_handles[FILE_ROOT_BLOCK]
    status,     \* "run": between calls; "hung": a call never returns; "off": power lost
    inflight,   \* the call that was in flight when power was lost, or NoCut
    live,       \* history: the committed and not yet consumed chunks, in commit order
    expect,     \* history: the records file_read owes the caller since the last open
    nread,      \* history: number of bytes file_read has returned since the last open
    readok,     \* history: every byte returned so far was the next byte owed
    nwritten,   \* history: number of payload bytes accepted by file_write so far
    calls       \* history: how many writes, reads, consumes, power cuts and opens or
                \* closes took effect

vars == <<flash, handle, open_handles, status, inflight, live, expect, nread, readok,
          nwritten, calls>>

----------------------------------------------------------------------------
(* Program constants *)

FLASH_PAGE_SIZE == 128
PAGES_PER_FILE == 3
FILE_SIZE == PAGES_PER_FILE * FLASH_PAGE_SIZE
FILE_OFFSET == 0
FILE_ROOT_BLOCK == 0
MAX_HANDLES == 1
PAGE_COUNTER_SIZE == 1

\* handle->start of the modelled file (file_open, line 840)
start == FILE_ROOT_BLOCK * FILE_SIZE + FILE_OFFSET

\* The modelled part of store[]: the file's region and the first page of the
\* region that follows it (FILE_FIRMWARE).  The rest of the chip is erased.
FlashSize == start + FILE_SIZE + FLASH_PAGE_SIZE

U8 == 256

\* A uint32_t is held as an integer: a negative value v stands for the wrapped
\* value 2^32 + v (the model's numbers stay far below 2^31).
\* 2^32 modulo n
U32Mod(n) == ((65536 % n) * (65536 % n)) % n
\* a % n for the uint32_t a
Mod32(a, n) == IF a >= 0 THEN a % n ELSE ((a % n) + U32Mod(n)) % n
\* a < b for the uint32_t a and b
Below32(a, b) ==
    IF (a >= 0) = (b >= 0) THEN a < b ELSE b < 0

NoHandle == [closed |-> TRUE]

----------------------------------------------------------------------------
(* Bounds of the model *)

\* file_write is offered until MaxWrites records were accepted
MaxWrites == 5
\* file_read is offered until MaxReads calls returned at least one byte
MaxReads == 4
\* file_consume is offered until MaxConsumes calls consumed at least one byte
MaxConsumes == 2
\* power is lost at most this many times
MaxCuts == 1
\* calls that take effect in a run with power loss
MaxCutCalls == 4
\* records accepted in a run that goes round the ring
MaxLapWrites == 10
\* records accepted in a run that leaves one-byte page tails on its way round
\* the ring
MaxTailWrites == 10

\* the lengths of the records offered to file_write: with the two header bytes
\* two of the first fill half a page less one byte, the first and the second
\* fill a page exactly, the third fills a page on its own
WriteLens == {(FLASH_PAGE_SIZE \div 2) - 3, (FLASH_PAGE_SIZE \div 2) - 2,
              FLASH_PAGE_SIZE - 3}
\* the sizes offered to file_read and to file_consume
ReadSizes == {1} \cup WriteLens
ConsumeSizes == {1} \cup WriteLens

----------------------------------------------------------------------------
(* The flash port: Test/flash_port_mock.c *)

RECURSIVE AndBits(_, _, _)
AndBits(a, b, n) ==
    IF n = 0 THEN 0
    ELSE (IF a % 2 = 1 /\ b % 2 = 1 THEN 1 ELSE 0)
         + 2 * AndBits(a \div 2, b \div 2, n - 1)

RECURSIVE OrBits(_, _, _)
OrBits(a, b, n) ==
    IF n = 0 THEN 0
    ELSE (IF a % 2 = 1 \/ b % 2 = 1 THEN 1 ELSE 0)
         + 2 * OrBits(a \div 2, b \div 2, n - 1)

\* store[] is kept as a sequence: store[a] is fl[a + 1]
OnChip(a) == a >= 0 /\ a < FlashSize

\* the elements lo .. hi of a sequence, none when hi < lo
Sub(seq, lo, hi) == IF hi < lo THEN <<>> ELSE SubSeq(seq, lo, hi)

\* store_read of one byte; bytes of the chip beyond the modelled part are erased
Rd(fl, a) == IF OnChip(a) THEN fl[a + 1] ELSE 255

\* store_read of the n bytes from a on
store_read(fl, a, n) ==
    LET on == IF a + n <= FlashSize THEN n
              ELSE IF a < FlashSize THEN FlashSize - a ELSE 0
    IN Sub(fl, a + 1, a + on) \o [k \in 1..(n - on) |-> 255]

\* store_write of one byte: NOR flash can only clear bits
store_write(fl, a, b) ==
    IF OnChip(a)
    THEN [fl EXCEPT ![a + 1] = IF @ = 255 THEN b ELSE AndBits(@, b, 8)]
    ELSE fl

\* flash_erase is the port's: flash_port.h declares it (an erase affects entire
\* pages) and the tests read 0xFF from an erased page.  The mock writes its
\* 0xFF through store_write, which only clears bits.  Modelled is the port: the
\* page reads 0xFF afterwards, and an erase that loses power leaves the page
\* untouched, half erased, or with bits set that had been cleared.
GarbleModes == {"same", "head", "tail", "bits"}

ErasedBytes(n) == [k \in 1..n |-> 255]

Garble(fl, page_start, mode) ==
    LET half == FLASH_PAGE_SIZE \div 2
        page == SubSeq(fl, page_start + 1, page_start + FLASH_PAGE_SIZE)
        left == IF mode = "same" THEN page
                ELSE IF mode = "head"
                     THEN ErasedBytes(half) \o Sub(page, half + 1, FLASH_PAGE_SIZE)
                ELSE IF mode = "tail"
                     THEN Sub(page, 1, half) \o ErasedBytes(FLASH_PAGE_SIZE - half)
                ELSE [k \in 1..FLASH_PAGE_SIZE |-> OrBits(page[k], 1, 8)]
    IN Sub(fl, 1, page_start) \o left
       \o Sub(fl, page_start + FLASH_PAGE_SIZE + 1, FlashSize)

\* Power budget m.pw: -1 power never fails; k >= 0: k more flash operations
\* complete and the next one is cut; -2: power is off.
\* flash_write of one byte.
flash_write(m, a, b) ==
    IF m.pw = -2 THEN m
    ELSE IF m.pw = 0 THEN [m EXCEPT !.pw = -2]
    ELSE [m EXCEPT !.fl = store_write(m.fl, a, b),
                   !.pw = IF @ > 0 THEN @ - 1 ELSE @,
                   !.oob = @ \/ ~OnChip(a),
                   !.ops = Append(@, [a |-> a, d |-> <<b>>])]

\* store_write of the first done bytes of data at a .. a + done - 1
store_write_n(fl, a, data, done) ==
    LET on == IF a + done <= FlashSize THEN done
              ELSE IF a < FlashSize THEN FlashSize - a ELSE 0
        old == Sub(fl, a + 1, a + on)
        new == IF old = ErasedBytes(on) THEN Sub(data, 1, on)
               ELSE [k \in 1..on |-> AndBits(old[k], data[k], 8)]
    IN IF on = 0 THEN fl
       ELSE Sub(fl, 1, a) \o new \o Sub(fl, a + on + 1, FlashSize)

\* flash_write of n bytes: the bytes go out in address order, one operation each
flash_write_n(m, a, data) ==
    LET n == Len(data)
        done == IF m.pw = -1 THEN n
                ELSE IF m.pw = -2 THEN 0
                ELSE IF m.pw < n THEN m.pw ELSE n
    IN IF m.pw = -2 \/ n = 0 THEN m
       ELSE [m EXCEPT
               !.fl = store_write_n(m.fl, a, data, done),
               !.pw = IF @ = -1 THEN -1 ELSE IF @ < n THEN -2 ELSE @ - n,
               !.oob = @ \/ (done > 0 /\ ~OnChip(a + done - 1)),
               !.ops = IF done > 0 THEN Append(@, [a |-> a, d |-> SubSeq(data, 1, done)])
                       ELSE @]

flash_erase(m, page_start) ==
    IF m.pw = -2 THEN m
    ELSE IF m.pw = 0
         THEN [m EXCEPT !.fl = Garble(m.fl, page_start, m.cut), !.pw = -2,
                        !.erased = Append(@, page_start)]
    ELSE [m EXCEPT !.fl = Sub(@, 1, page_start) \o ErasedBytes(FLASH_PAGE_SIZE)
                          \o Sub(@, page_start + FLASH_PAGE_SIZE + 1, FlashSize),
                   !.pw = IF @ > 0 THEN @ - 1 ELSE @,
                   !.erased = Append(@, page_start)]

\* The machine a call starts from
Machine(fl, h, pw, cut) ==
    [fl |-> fl, h |-> h, pw |-> pw, cut |-> cut, hung |-> FALSE, oob |-> FALSE,
     ops |-> <<>>, erased |-> <<>>, flips |-> <<>>, out |-> <<>>, src |-> <<>>,
     ret |-> 0, chunk |-> -1]

----------------------------------------------------------------------------
(* Helpers of FIFO.c *)

free_space(h) == h.free_space

used_space(h) == FILE_SIZE - h.free_space

RECURSIVE count_ones(_)
count_ones(b) == IF b = 0 THEN 0 ELSE (b % 2) + count_ones(b \div 2)

\* (0xFF << write_count) stored into a uint8_t
Counter(wc) == (255 * (2 ^ wc)) % U8

\* ++write_count; if (write_count == 9) write_count = 1;
NextCount(wc) == IF (wc + 1) % U8 = 9 THEN 1 ELSE (wc + 1) % U8

\* a - b in uint32_t
Sub32(a, b) == a - b

\* if (!(x % FLASH_PAGE_SIZE)) x += PAGE_COUNTER_SIZE;
SkipCounterByte(x) == IF x % FLASH_PAGE_SIZE = 0 THEN x + PAGE_COUNTER_SIZE ELSE x

\* A while (!done) loop of the pointer engine reads the flash and changes one
\* offset.  Each round moves the offset forward or wraps it to the first page,
\* and where it goes depends on the offset alone: a loop that wraps for the
\* third time has been at the start of the first page before and never leaves.
MaxLaps == 2

\* file_read and file_consume pass a chunk whose size byte reads 0 without
\* coming closer to the end of the request; after LoopFuel such chunks in a
\* row the head has been where it is before.
LoopFuel == FILE_SIZE

----------------------------------------------------------------------------
(* The raw read head *)

check_read_pointer(fl, h) ==
    \/ h.raw_read_chunk_start = h.write_offset
    \/ Rd(fl, start + h.raw_read_chunk_start + 1) = 254

\* the while (!done) loop of advance_read_pointer_to_next_chunk
RECURSIVE read_pointer_loop(_, _)
read_pointer_loop(m, laps) ==
    IF check_read_pointer(m.fl, m.h) THEN m
    ELSE IF laps > MaxLaps THEN [m EXCEPT !.hung = TRUE]
    ELSE
      LET r0 == m.h.raw_read_chunk_start
          c1 == Rd(m.fl, start + r0)
          \* invalid chunk, move to next chunk
          r1 == IF c1 # 255
                THEN (IF r0 + c1 + 2 >= FILE_SIZE THEN PAGE_COUNTER_SIZE
                      ELSE r0 + c1 + 2)
                ELSE r0
          r2 == SkipCounterByte(r1)
          m2 == [m EXCEPT !.h.raw_read_chunk_start = r2]
      IN IF check_read_pointer(m2.fl, m2.h) THEN m2
         ELSE
           LET c3 == Rd(m.fl, start + r2)
               \* leftovers at end of page
               r3 == IF c3 = 255
                     THEN (IF r2 + (FLASH_PAGE_SIZE - (r2 % FLASH_PAGE_SIZE)) >= FILE_SIZE
                           THEN 0
                           ELSE r2 + (FLASH_PAGE_SIZE - (r2 % FLASH_PAGE_SIZE)))
                     ELSE r2
               r4 == SkipCounterByte(r3)
           IN read_pointer_loop([m EXCEPT !.h.raw_read_chunk_start = r4],
                                IF r4 <= r0 THEN laps + 1 ELSE laps)

advance_read_pointer_to_next_chunk(m) ==
    LET r0 == m.h.raw_read_chunk_start
        check == Rd(m.fl, start + r0)
        r1 == IF r0 + check + 2 >= FILE_SIZE THEN PAGE_COUNTER_SIZE ELSE r0 + check + 2
        r2 == SkipCounterByte(r1)
    IN read_pointer_loop([m EXCEPT !.h.raw_read_chunk_start = r2], 0)

----------------------------------------------------------------------------
(* The destructive read head *)

check_destructive_read_pointer(fl, h) ==
    \/ h.destructive_read_offset = h.raw_read_chunk_start
    \/ Rd(fl, start + h.destructive_read_offset + 1) = 254

\* the while (!done) loop of advance_destructive_read_pointer_to_next_chunk
RECURSIVE destructive_pointer_loop(_, _)
destructive_pointer_loop(m, laps) ==
    IF check_destructive_read_pointer(m.fl, m.h) THEN m
    ELSE IF laps > MaxLaps THEN [m EXCEPT !.hung = TRUE]
    ELSE
      LET d0 == m.h.destructive_read_offset
          c1 == Rd(m.fl, start + d0)
          skip1 == c1 # 255
          d1 == IF skip1
                THEN (IF d0 + c1 + 2 >= FILE_SIZE THEN 0 ELSE d0 + c1 + 2)
                ELSE d0
          f1 == IF skip1 THEN m.h.free_space + c1 + 2 ELSE m.h.free_space
          d2 == SkipCounterByte(d1)
          m2 == [m EXCEPT !.h.destructive_read_offset = d2, !.h.free_space = f1]
      IN IF check_destructive_read_pointer(m2.fl, m2.h) THEN m2
         ELSE
           LET c3 == Rd(m.fl, start + d2)
               tail == c3 = 255
               gap == FLASH_PAGE_SIZE - (d2 % FLASH_PAGE_SIZE)
               f3 == IF tail THEN f1 + gap ELSE f1
               d3 == IF tail
                     THEN (IF d2 + gap >= FILE_SIZE THEN 0 ELSE d2 + gap)
                     ELSE d2
               d4 == SkipCounterByte(d3)
           IN destructive_pointer_loop(
                  [m EXCEPT !.h.destructive_read_offset = d4, !.h.free_space = f3],
                  IF d4 <= d0 THEN laps + 1 ELSE laps)

\* advance_destructive_read_pointer_to_next_chunk that goes one chunk further
\* when it has met the read head
advance_destructive_read_pointer_to_next_chunk_PastReadHead(m) ==
    LET d0 == m.h.destructive_read_offset
        size == Rd(m.fl, start + d0)
        d1 == IF d0 + size + 2 >= FILE_SIZE THEN 0 ELSE d0 + size + 2
        d2 == SkipCounterByte(d1)
        m1 == destructive_pointer_loop(
                  [m EXCEPT !.h.destructive_read_offset = d2,
                            !.h.free_space = @ + size + 2],
                  0)
        d3 == m1.h.destructive_read_offset
    IN IF d3 = m1.h.raw_read_chunk_start /\ d3 # m1.h.write_offset
       THEN [m1 EXCEPT !.h.destructive_read_offset = d3 + Rd(m1.fl, start + d3) + 2]
       ELSE m1

advance_destructive_read_pointer_to_next_chunk(m) ==
    LET d0 == m.h.destructive_read_offset
        size == Rd(m.fl, start + d0)
        d1 == IF d0 + size + 2 >= FILE_SIZE THEN 0 ELSE d0 + size + 2
        d2 == SkipCounterByte(d1)
    IN destructive_pointer_loop(
           [m EXCEPT !.h.destructive_read_offset = d2,
                     !.h.free_space = @ + size + 2],
           0)

----------------------------------------------------------------------------
(* file_consume *)

\* lines 1083-1108: erase the page the destructive read head has just left
consume_erase(m) ==
    LET h == m.h
        d == h.destructive_read_offset
    IN IF Mod32(Sub32(d, PAGE_COUNTER_SIZE), FLASH_PAGE_SIZE) # 0 THEN m
       ELSE
         LET page_start == IF d >= FLASH_PAGE_SIZE
                           THEN d - FLASH_PAGE_SIZE - PAGE_COUNTER_SIZE
                           ELSE FILE_SIZE - FLASH_PAGE_SIZE
             test == Rd(m.fl, start + page_start + 1 + PAGE_COUNTER_SIZE)
         IN IF /\ test = 252
               /\ \/ h.write_offset <= page_start
                  \/ h.write_offset >= page_start + FLASH_PAGE_SIZE
               /\ \/ h.raw_read_chunk_start < page_start
                  \/ h.raw_read_chunk_start >= page_start + FLASH_PAGE_SIZE
            THEN flash_erase(m, start + page_start)
            ELSE m

\* file_consume without the stop at the read head
RECURSIVE file_consume_loop_PastReadHead(_, _, _, _)
file_consume_loop_PastReadHead(m, size, i, fuel) ==
    IF size = 0 THEN [m EXCEPT !.ret = i]
    ELSE
      LET d == m.h.destructive_read_offset
          chunk_size == Rd(m.fl, start + d)
      IN IF chunk_size > size THEN [m EXCEPT !.ret = i]
         ELSE IF chunk_size = 0 /\ fuel = 0 THEN [m EXCEPT !.hung = TRUE]
         ELSE
           LET m0 == flash_write(m, start + d + 1, 252)
               m1 == IF Len(m0.ops) > Len(m.ops)
                     THEN [m0 EXCEPT !.flips = Append(@, [a |-> d, size |-> chunk_size,
                                                          left |-> size,
                                                          was |-> Rd(m.fl, start + d + 1)])]
                     ELSE m0
               m2 == advance_destructive_read_pointer_to_next_chunk(m1)
           IN IF m2.hung THEN m2
              ELSE file_consume_loop_PastReadHead(consume_erase(m2), size - chunk_size,
                                     i + chunk_size,
                                     IF chunk_size = 0 THEN fuel - 1 ELSE LoopFuel)

\* the while (size) loop of file_consume; i is the number of bytes consumed so far
RECURSIVE file_consume_loop(_, _, _, _)
file_consume_loop(m, size, i, fuel) ==
    IF size = 0 THEN [m EXCEPT !.ret = i]
    ELSE IF m.h.destructive_read_offset = m.h.raw_read_chunk_start
         THEN [m EXCEPT !.ret = i]
    ELSE
      LET d == m.h.destructive_read_offset
          chunk_size == Rd(m.fl, start + d)
      IN IF chunk_size > size THEN [m EXCEPT !.ret = i]
         ELSE IF chunk_size = 0 /\ fuel = 0 THEN [m EXCEPT !.hung = TRUE]
         ELSE
           LET m0 == flash_write(m, start + d + 1, 252)
               \* history: the flip, when power was still on
               m1 == IF Len(m0.ops) > Len(m.ops)
                     THEN [m0 EXCEPT !.flips = Append(@, [a |-> d, size |-> chunk_size,
                                                          left |-> size,
                                                          was |-> Rd(m.fl, start + d + 1)])]
                     ELSE m0
               m2 == advance_destructive_read_pointer_to_next_chunk(m1)
           IN IF m2.hung THEN m2
              ELSE file_consume_loop(consume_erase(m2), size - chunk_size,
                                     i + chunk_size,
                                     IF chunk_size = 0 THEN fuel - 1 ELSE LoopFuel)

\* file_consume that returns the number of chunks it has flipped
file_consume_CountsChunks(m, size) ==
    LET r == file_consume_loop(m, size, 0, LoopFuel)
    IN [r EXCEPT !.ret = Len(r.flips)]

file_consume(m, size) == file_consume_loop(m, size, 0, LoopFuel)

----------------------------------------------------------------------------
(* file_size *)

file_size(h) == used_space(h)

----------------------------------------------------------------------------
(* file_read *)

\* flash_read(addr, data + i, n): the n bytes from addr on
ReadBytes(fl, addr, n) == store_read(fl, addr, n)

\* the while (size) loop of file_read; i is the number of bytes returned so far
RECURSIVE file_read_loop(_, _, _, _)
file_read_loop(m, size, i, fuel) ==
    IF size = 0 THEN [m EXCEPT !.ret = i]
    ELSE
      LET h == m.h
          r == h.raw_read_chunk_start
      IN IF r = h.write_offset /\ Rd(m.fl, start + r) = 255
         THEN [m EXCEPT !.ret = i]
         ELSE
           LET chunk_size == Rd(m.fl, start + r)
               remaining_chunk_size == (chunk_size - (h.raw_read_chunk_offset % U8) + U8) % U8
               from == start + r + 2 + h.raw_read_chunk_offset
           IN IF remaining_chunk_size > size
              THEN \* chunk is larger than what is asked for: read only that
                LET read_amount == size % U8
                    m1 == [m EXCEPT !.out = @ \o ReadBytes(m.fl, from, size),
                                    !.src = Append(@, [a |-> from, n |-> size]),
                                    !.ret = i + read_amount]
                IN IF read_amount >= remaining_chunk_size
                   THEN LET m2 == advance_read_pointer_to_next_chunk(m1)
                        IN [m2 EXCEPT !.h.raw_read_chunk_offset = 0]
                   ELSE [m1 EXCEPT !.h.raw_read_chunk_offset = @ + read_amount]
              ELSE \* read all of the remaining chunk and go on
                LET read_amount == remaining_chunk_size
                    m1 == [m EXCEPT !.out = @ \o ReadBytes(m.fl, from, read_amount),
                                    !.src = Append(@, [a |-> from, n |-> read_amount]),
                                    !.ret = i + read_amount]
                    m2 == IF read_amount = chunk_size
                          THEN LET m3 == advance_read_pointer_to_next_chunk(m1)
                               IN [m3 EXCEPT !.h.raw_read_chunk_offset = 0]
                          ELSE [m1 EXCEPT !.h.raw_read_chunk_offset = @ + read_amount]
                IN IF m2.hung THEN m2
                   ELSE IF read_amount = 0 /\ (chunk_size # 0 \/ fuel = 0)
                        THEN \* nothing read, nothing moved (or moved in a circle)
                             [m2 EXCEPT !.hung = TRUE]
                   ELSE file_read_loop(m2, size - read_amount, i + read_amount,
                                       IF read_amount = 0 THEN fuel - 1 ELSE LoopFuel)

file_read(m, size) == file_read_loop(m, size, 0, LoopFuel)

----------------------------------------------------------------------------
(* file_write *)

\* lines 1222-1231, 1250-1259, 1273-1283: move into the page at write_offset
\* when its counter byte reads 0xFF
\* enter_page that moves in whatever the counter byte reads
enter_page_Unerased(m) ==
    LET w == m.h.write_offset
        m1 == flash_write(m, start + w, Counter(m.h.write_count))
    IN [m1 EXCEPT !.h.write_count = NextCount(@),
                  !.h.write_offset = w + PAGE_COUNTER_SIZE]

enter_page(m) ==
    LET w == m.h.write_offset
    IN IF Rd(m.fl, start + w) = 255
       THEN LET m1 == flash_write(m, start + w, Counter(m.h.write_count))
            IN [m1 EXCEPT !.h.write_count = NextCount(@),
                          !.h.write_offset = w + PAGE_COUNTER_SIZE]
       ELSE m

\* advance_write_pointer_to_next_page that goes back to the first chunk slot
\* of the page the head is in
advance_write_pointer_to_next_page_SamePage(m) ==
    LET w == m.h.write_offset
        remaining == Mod32(Sub32(FLASH_PAGE_SIZE, w), FLASH_PAGE_SIZE)
    IN [m EXCEPT !.h.write_offset = w - (w % FLASH_PAGE_SIZE) + PAGE_COUNTER_SIZE,
                 !.h.free_space = Sub32(@, remaining)]

advance_write_pointer_to_next_page(m) ==
    LET w == m.h.write_offset
        remaining == Mod32(Sub32(FLASH_PAGE_SIZE, w), FLASH_PAGE_SIZE)
        w1 == w + remaining
        w2 == IF w1 > FILE_SIZE THEN 0 ELSE w1
    IN enter_page([m EXCEPT !.h.write_offset = w2,
                            !.h.free_space = Sub32(@, remaining)])

\* advance_write_pointer that moves the head over the payload and one header
\* byte only
advance_write_pointer_ShortHeader(m) ==
    LET w == m.h.write_offset
        size == Rd(m.fl, start + w)
        w1 == w + size + 1
        w2 == IF w1 >= FILE_SIZE THEN 0 ELSE w1
        m1 == [m EXCEPT !.h.write_offset = w2,
                        !.h.free_space = Sub32(@, size + 2)]
    IN IF w2 % FLASH_PAGE_SIZE = 0 THEN enter_page(m1) ELSE m1

advance_write_pointer(m) ==
    LET w == m.h.write_offset
        size == Rd(m.fl, start + w)
        w1 == w + size + 2
        w2 == IF w1 >= FILE_SIZE THEN 0 ELSE w1
        m1 == [m EXCEPT !.h.write_offset = w2,
                        !.h.free_space = Sub32(@, size + 2)]
    IN IF w2 % FLASH_PAGE_SIZE = 0 THEN enter_page(m1) ELSE m1

\* file_write with the state byte written before the payload
write_chunk_StateFirst(m, data, size) ==
    LET w == m.h.write_offset
        m1 == flash_write([m EXCEPT !.chunk = w], start + w, size % U8)
        m2 == flash_write(m1, start + w + 1, 254)
        m3 == flash_write_n(m2, start + w + 2, data)
        m4 == advance_write_pointer(m3)
    IN [m4 EXCEPT !.ret = size]

\* lines 1313-1325: size byte, payload, state byte, then move the write head
write_chunk(m, data, size) ==
    LET w == m.h.write_offset
        m1 == flash_write([m EXCEPT !.chunk = w], start + w, size % U8)
        m2 == flash_write_n(m1, start + w + 2, data)
        m3 == flash_write(m2, start + w + 1, 254)
        m4 == advance_write_pointer(m3)
    IN [m4 EXCEPT !.ret = size]

\* file_write without the test against the size of a page
place_chunk_NoPageLimit(m, data, size) ==
    IF size >= 255 THEN m
    ELSE IF Below32(free_space(m.h), size + 2) THEN m
    ELSE
      LET w == m.h.write_offset
          next_page == FLASH_PAGE_SIZE * (w \div FLASH_PAGE_SIZE) + FLASH_PAGE_SIZE
          m1 == IF w + size + 2 > next_page
                THEN advance_write_pointer_to_next_page(m)
                ELSE m
      IN IF w + size + 2 > next_page /\ m1.h.write_offset % FLASH_PAGE_SIZE = 0
         THEN m1
         ELSE IF Below32(free_space(m1.h), size + 2) THEN m1
         ELSE write_chunk(m1, data, size)

\* lines 1286-1311: the size checks and the choice of the page
place_chunk(m, data, size) ==
    IF size >= 255 THEN m
    ELSE IF size + 2 + PAGE_COUNTER_SIZE > FLASH_PAGE_SIZE THEN m
    ELSE IF Below32(free_space(m.h), size + 2) THEN m
    ELSE
      LET w == m.h.write_offset
          next_page == FLASH_PAGE_SIZE * (w \div FLASH_PAGE_SIZE) + FLASH_PAGE_SIZE
          m1 == IF w + size + 2 > next_page
                THEN advance_write_pointer_to_next_page(m)
                ELSE m
      IN IF w + size + 2 > next_page /\ m1.h.write_offset % FLASH_PAGE_SIZE = 0
         THEN m1
         ELSE IF Below32(free_space(m1.h), size + 2) THEN m1
         ELSE write_chunk(m1, data, size)

\* file_write that does not wait for the page under the write head
file_write_NoWait(m, data, size) ==
    IF m.h.write_offset % FLASH_PAGE_SIZE = 0
    THEN place_chunk(enter_page(m), data, size)
    ELSE place_chunk(m, data, size)

\* data holds the size bytes of the caller's buffer
file_write(m, data, size) ==
    IF m.h.write_offset % FLASH_PAGE_SIZE = 0
    THEN \* hanging around at the beginning of a page
      IF Rd(m.fl, start + m.h.write_offset) # 255 THEN m
      ELSE place_chunk(enter_page(m), data, size)
    ELSE place_chunk(m, data, size)

----------------------------------------------------------------------------
(* file_open: recovery of the handle from the flash *)

LegalCounters == {255, 254, 252, 248, 240, 224, 192, 128, 0}

\* lines 587-608: parse the chunks of the page at offset i; TRUE when a pair
\* (size, valid) that cannot happen is met
RECURSIVE page_is_corrupt(_, _, _)
page_is_corrupt(fl, i, addr) ==
    IF ~(addr < i + FLASH_PAGE_SIZE - 1) THEN FALSE
    ELSE
      LET size == Rd(fl, start + addr)
          valid == Rd(fl, start + addr + 1)
      IN IF \/ (size = 255 /\ valid # 255)
            \/ (valid # 255 /\ valid # 254 /\ valid # 252)
         THEN TRUE
         ELSE page_is_corrupt(fl, i, IF size = 255 THEN addr + 2 ELSE addr + size + 2)

\* the for loop of find_and_repair_corrupted_pages, from page offset i on
RECURSIVE repair_from(_, _)
repair_from(m, i) ==
    IF ~(i < FILE_SIZE) THEN m
    ELSE
      LET page_counter == Rd(m.fl, start + i)
      IN IF page_counter \in LegalCounters
         THEN IF page_is_corrupt(m.fl, i, i + 1)
              THEN flash_erase(m, start + i)
              ELSE repair_from(m, i + FLASH_PAGE_SIZE)
         ELSE flash_erase(m, start + i)

find_and_repair_corrupted_pages(m) == repair_from(m, 0)

\* lines 636-654: the pages whose counter byte is not 0xFF
WrittenPages(fl) ==
    {i \in 0..(FILE_SIZE \div FLASH_PAGE_SIZE - 1) :
        Rd(fl, start + FLASH_PAGE_SIZE * i) # 255}

\* the first page that holds the smallest counter (page 0 when none is written)
first_write_page(fl) ==
    IF WrittenPages(fl) = {} THEN 0
    ELSE CHOOSE i \in WrittenPages(fl) :
           \A j \in WrittenPages(fl) :
              LET ci == Rd(fl, start + FLASH_PAGE_SIZE * i)
                  cj == Rd(fl, start + FLASH_PAGE_SIZE * j)
              IN ci < cj \/ (ci = cj /\ i <= j)

\* lines 690-715: walk the chunks of the page until a size byte reads 0xFF
RECURSIVE site_write_walk(_)
site_write_walk(m) ==
    LET w == m.h.write_offset
        size == Rd(m.fl, start + w)
    IN IF size = 255 THEN m
       ELSE
         LET w1 == w + size + 2
             m1 == [m EXCEPT !.h.write_offset = w1,
                             !.h.free_space = Sub32(@, size + 2)]
         IN IF w1 % FLASH_PAGE_SIZE = 0
            THEN enter_page(m1)
            ELSE site_write_walk(m1)

site_write_pointer(m) ==
    LET pages_written == Cardinality(WrittenPages(m.fl))
        page == first_write_page(m.fl)
        smallest == IF pages_written = 0 THEN 255
                    ELSE Rd(m.fl, start + FLASH_PAGE_SIZE * page)
        wc == IF smallest < 255
              THEN (IF 8 - count_ones(smallest) + 1 = 9 THEN 1
                    ELSE 8 - count_ones(smallest) + 1)
              ELSE m.h.write_count
        fs == IF pages_written # 0
              THEN Sub32(Sub32(FILE_SIZE,
                               (pages_written - 1) * (FLASH_PAGE_SIZE - PAGE_COUNTER_SIZE)),
                         (FILE_SIZE \div FLASH_PAGE_SIZE) * PAGE_COUNTER_SIZE)
              ELSE m.h.free_space
        m1 == [m EXCEPT !.h.write_offset = page * FLASH_PAGE_SIZE,
                        !.h.write_count = wc,
                        !.h.free_space = fs]
    IN IF Rd(m.fl, start + m1.h.write_offset + 1) = 255
       THEN \* starting on a fresh page
         IF Rd(m.fl, start + m1.h.write_offset) = 255
         THEN enter_page(m1)
         ELSE [m1 EXCEPT !.h.write_offset = @ + PAGE_COUNTER_SIZE]
       ELSE site_write_walk([m1 EXCEPT !.h.write_offset = @ + PAGE_COUNTER_SIZE])

\* site_read_skip that passes a Valid chunk like a consumed one
RECURSIVE site_read_skip_PastValid(_)
site_read_skip_PastValid(m) ==
    LET d == m.h.destructive_read_offset
        c_size == Rd(m.fl, start + d)
    IN IF d = m.h.write_offset THEN m
       ELSE IF c_size = 255
            THEN LET page_start == FLASH_PAGE_SIZE * (d \div FLASH_PAGE_SIZE)
                     m1 == flash_erase(m, start + page_start)
                     d1 == page_start + FLASH_PAGE_SIZE
                     d2 == (IF d1 = FILE_SIZE THEN 0 ELSE d1) + PAGE_COUNTER_SIZE
                 IN [m1 EXCEPT !.h.destructive_read_offset = d2]
       ELSE
         LET d1 == d + c_size + 2
             m1 == [m EXCEPT !.h.destructive_read_offset = d1,
                             !.h.free_space = @ + c_size + 2]
         IN IF d1 % FLASH_PAGE_SIZE = 0
            THEN LET page_start == FLASH_PAGE_SIZE * ((d1 - 1) \div FLASH_PAGE_SIZE)
                     m2 == flash_erase(m1, start + page_start)
                 IN site_read_skip_PastValid(
                        [m2 EXCEPT !.h.destructive_read_offset = d1 + PAGE_COUNTER_SIZE])
            ELSE site_read_skip_PastValid(m1)

\* lines 771-810: the head stands on a consumed chunk; pass the consumed and
\* invalid chunks of the page.  Ends the outer loop (done = 1).
RECURSIVE site_read_skip(_)
site_read_skip(m) ==
    LET d == m.h.destructive_read_offset
        c_size == Rd(m.fl, start + d)
        c_valid == Rd(m.fl, start + d + 1)
    IN IF d = m.h.write_offset THEN m
       ELSE IF c_size = 255
            THEN LET page_start == FLASH_PAGE_SIZE * (d \div FLASH_PAGE_SIZE)
                     m1 == flash_erase(m, start + page_start)
                     d1 == page_start + FLASH_PAGE_SIZE
                     d2 == (IF d1 = FILE_SIZE THEN 0 ELSE d1) + PAGE_COUNTER_SIZE
                 IN [m1 EXCEPT !.h.destructive_read_offset = d2]
       ELSE IF c_valid = 254 THEN m
       ELSE
         LET d1 == d + c_size + 2
             m1 == [m EXCEPT !.h.destructive_read_offset = d1,
                             !.h.free_space = @ + c_size + 2]
         IN IF d1 % FLASH_PAGE_SIZE = 0
            THEN LET page_start == FLASH_PAGE_SIZE * ((d1 - 1) \div FLASH_PAGE_SIZE)
                     m2 == flash_erase(m1, start + page_start)
                 IN site_read_skip(
                        [m2 EXCEPT !.h.destructive_read_offset = d1 + PAGE_COUNTER_SIZE])
            ELSE site_read_skip(m1)

NextPage(d) ==
    IF d + FLASH_PAGE_SIZE >= FILE_SIZE THEN 0 + PAGE_COUNTER_SIZE
    ELSE d + FLASH_PAGE_SIZE

\* the while (!done) loop of site_read_pointer
RECURSIVE site_read_loop(_, _, _)
site_read_loop(m, pages_examined, fuel) ==
    LET d == m.h.destructive_read_offset
        w == m.h.write_offset
    IN IF w + 1 = d THEN m
       ELSE IF pages_examined > 0 /\ Below32(Sub32(w, d), FLASH_PAGE_SIZE)
            THEN [m EXCEPT !.h.destructive_read_offset = NextPage(d)]
       ELSE IF Rd(m.fl, start + d - PAGE_COUNTER_SIZE) = 255
            THEN [m EXCEPT !.h.destructive_read_offset = NextPage(d)]
       ELSE IF Rd(m.fl, start + d + 1) = 252
            THEN site_read_skip(m)
       ELSE IF fuel = 0 THEN [m EXCEPT !.hung = TRUE]
       ELSE site_read_loop(
                [m EXCEPT !.h.destructive_read_offset =
                              IF d = 1
                              THEN FILE_SIZE - FLASH_PAGE_SIZE + PAGE_COUNTER_SIZE
                              ELSE Sub32(d, FLASH_PAGE_SIZE)],
                (pages_examined + 1) % U8, fuel - 1)

site_read_pointer(m) ==
    LET d0 == FLASH_PAGE_SIZE * (m.h.write_offset \div FLASH_PAGE_SIZE) + PAGE_COUNTER_SIZE
        \* a loop that has gone back PAGES_PER_FILE + 1 pages has met every
        \* page with pages_examined > 0 and left at none: it never leaves
        m1 == site_read_loop([m EXCEPT !.h.destructive_read_offset = d0], 0,
                             PAGES_PER_FILE + 1)
    IN [m1 EXCEPT !.h.raw_read_chunk_start = m1.h.destructive_read_offset]

\* lines 838-846: the handle before recovery
NewHandle ==
    [write_offset |-> 0,
     raw_read_chunk_start |-> 1,
     raw_read_chunk_offset |-> 0,
     destructive_read_offset |-> 1,
     free_space |-> FILE_SIZE - (PAGE_COUNTER_SIZE * FILE_SIZE) \div FLASH_PAGE_SIZE,
     write_count |-> 1]

file_open(m) ==
    site_read_pointer(
        site_write_pointer(
            find_and_repair_corrupted_pages([m EXCEPT !.h = NewHandle])))

----------------------------------------------------------------------------
(* The state machine *)

\* the k-th payload byte ever written: 1..251, so that no payload byte looks
\* like an erased byte or a state byte
PayloadByte(k) == ((k - 1) % 251) + 1

\* all the payload bytes a run can write
MaxPayload == (MaxWrites + MaxCuts + MaxLapWrites) * (FLASH_PAGE_SIZE - 3)
Pattern == [k \in 1..MaxPayload |-> PayloadByte(k)]

Payload(from, len) == SubSeq(Pattern, from + 1, from + len)

\* the number of payload bytes of a sequence of records [from, len]
RECURSIVE TotalLen(_)
TotalLen(chunks) ==
    IF chunks = <<>> THEN 0 ELSE Head(chunks).len + TotalLen(Tail(chunks))

\* the bytes i+1 .. i+n of the payloads of a sequence of records, as far as they go
RECURSIVE OwedSlice(_, _, _)
OwedSlice(chunks, i, n) ==
    IF chunks = <<>> \/ n <= 0 THEN <<>>
    ELSE LET c == Head(chunks)
             take == IF n < c.len - i THEN n ELSE c.len - i
         IN IF i >= c.len THEN OwedSlice(Tail(chunks), i - c.len, n)
            ELSE Payload(c.from + i, take) \o OwedSlice(Tail(chunks), 0, n - take)

\* the bytes out are the bytes i+1 .. i+Len(out) of the payloads of the records
Matches(out, chunks, i) == out = OwedSlice(chunks, i, Len(out))

\* drop from the history the first chunk recorded at address a
RECURSIVE DropAt(_, _)
DropAt(chunks, a) ==
    IF chunks = <<>> THEN <<>>
    ELSE IF Head(chunks).a = a THEN Tail(chunks)
    ELSE <<Head(chunks)>> \o DropAt(Tail(chunks), a)

RECURSIVE DropAll(_, _)
DropAll(chunks, flips) ==
    IF flips = <<>> THEN chunks
    ELSE DropAll(DropAt(chunks, Head(flips).a), Tail(flips))

\* the state byte of the chunk of this call was written
Committed(m) ==
    m.chunk # -1
    /\ \E k \in 1..Len(m.ops) : m.ops[k] = [a |-> start + m.chunk + 1, d |-> <<254>>]

\* history: the chunk of this call; got counts the payload bytes of the chunk
\* that file_read has returned since the open
LiveChunk(m, len) == [a |-> m.chunk, from |-> nwritten, len |-> len, got |-> 0]

\* how many of the bytes a .. a+n-1 lie in lo .. hi-1
Overlap(a, n, lo, hi) ==
    LET from == IF a > lo THEN a ELSE lo
        to   == IF a + n < hi THEN a + n ELSE hi
    IN IF to > from THEN to - from ELSE 0

RECURSIVE GotFrom(_, _)
GotFrom(src, c) ==
    IF src = <<>> THEN 0
    ELSE Overlap(Head(src).a, Head(src).n, start + c.a + 2, start + c.a + 2 + c.len)
         + GotFrom(Tail(src), c)

\* history after a read: the bytes it took from each live chunk
Credit(chunks, src) ==
    [k \in 1..Len(chunks) |-> [chunks[k] EXCEPT !.got = @ + GotFrom(src, chunks[k])]]

\* history after an open: the live chunks are owed again, nothing of them read
Rebase(chunks) == [k \in 1..Len(chunks) |-> [chunks[k] EXCEPT !.got = 0]]

NoCut == [op |-> "none", arg |-> 0, chunk |-> -1, from |-> 0]

\* flash_init(): every byte of the chip is erased
Blank == ErasedBytes(FlashSize)

\* flash_init(), then file_open(FILE_ROOT_BLOCK)
Init ==
    LET m == file_open(Machine(Blank, NewHandle, -1, "none"))
    IN /\ flash = m.fl
       /\ handle = m.h
       /\ status = "run"
       /\ inflight = NoCut
       /\ live = <<>>
       /\ expect = <<>>
       /\ nread = 0
       /\ readok = TRUE
       /\ nwritten = 0
       /\ open_handles = 1
       /\ calls = [w |-> 0, r |-> 0, c |-> 0, cuts |-> 0, o |-> 0]

Ready == status = "run" /\ handle # NoHandle

\* the machine a call without power loss starts from
Now == Machine(flash, handle, -1, "none")

\* file_write of the next len bytes of the pattern
Written(len) ==
    /\ Ready
    /\ LET data == Payload(nwritten, len)
           m == file_write(Now, data, len)
       IN /\ flash' = m.fl
          /\ handle' = m.h
          /\ live' = IF Committed(m) THEN Append(live, LiveChunk(m, len)) ELSE live
          /\ expect' = IF m.ret # 0
                       THEN Append(expect, [from |-> nwritten, len |-> len])
                       ELSE expect
          /\ nwritten' = IF m.ret # 0 THEN nwritten + len ELSE nwritten
          /\ status' = IF m.hung THEN "hung" ELSE "run"
          /\ calls' = IF m.ret # 0 THEN [calls EXCEPT !.w = @ + 1] ELSE calls
          /\ UNCHANGED <<open_handles, inflight, nread, readok>>

Write(len) == calls.w < MaxWrites /\ Written(len)

\* file_read of n bytes
ReadBack(n) ==
    /\ Ready
    /\ LET m == file_read(Now, n)
       IN /\ flash' = m.fl
          /\ handle' = m.h
          /\ status' = IF m.hung THEN "hung" ELSE "run"
          /\ nread' = nread + Len(m.out)
          /\ readok' = (readok /\ Matches(m.out, expect, nread))
          /\ live' = Credit(live, m.src)
          /\ calls' = IF m.out # <<>> THEN [calls EXCEPT !.r = @ + 1] ELSE calls
          /\ UNCHANGED <<open_handles, inflight, expect, nwritten>>

Read(n) == calls.r < MaxReads /\ ReadBack(n)

\* file_consume of n bytes
Consumed(n) ==
    /\ Ready
    /\ LET m == file_consume(Now, n)
       IN /\ flash' = m.fl
          /\ handle' = m.h
          /\ status' = IF m.hung THEN "hung" ELSE "run"
          /\ live' = DropAll(live, m.flips)
          /\ calls' = IF m.flips # <<>> THEN [calls EXCEPT !.c = @ + 1] ELSE calls
          /\ UNCHANGED <<open_handles, inflight, expect, nread, readok, nwritten>>

Consume(n) == calls.c < MaxConsumes /\ Consumed(n)

Next ==
    \/ \E len \in WriteLens : Write(len)
    \/ \E n \in ReadSizes : Read(n)
    \/ \E n \in ConsumeSizes : Consume(n)

Spec == Init /\ [][Next]_vars

----------------------------------------------------------------------------
(* Power loss *)

\* power is lost after k flash operations of file_write(len) have completed
WriteCut(len, k) ==
    /\ Ready
    /\ calls.cuts < MaxCuts
    /\ LET data == Payload(nwritten, len)
           m == file_write(Machine(flash, handle, k, "head"), data, len)
       IN /\ m.pw = -2
          /\ flash' = m.fl
          /\ live' = IF Committed(m) THEN Append(live, LiveChunk(m, len)) ELSE live
          /\ inflight' = [op |-> "write", arg |-> len, chunk |-> m.chunk, from |-> nwritten]
          /\ nwritten' = nwritten + len
    /\ handle' = NoHandle
    /\ open_handles' = 0
    /\ status' = "off"
    /\ calls' = [calls EXCEPT !.cuts = @ + 1]
    /\ UNCHANGED <<expect, nread, readok>>

\* power is lost after k flash operations of file_consume(n) have completed;
\* a page erase that is interrupted leaves the page as mode says
ConsumeCut(n, k, mode) ==
    /\ Ready
    /\ calls.cuts < MaxCuts
    /\ LET m == file_consume(Machine(flash, handle, k, mode), n)
       IN /\ m.pw = -2
          /\ flash' = m.fl
          /\ live' = DropAll(live, m.flips)
          /\ inflight' = [op |-> "consume", arg |-> n, chunk |-> -1, from |-> 0]
    /\ handle' = NoHandle
    /\ open_handles' = 0
    /\ status' = "off"
    /\ calls' = [calls EXCEPT !.cuts = @ + 1]
    /\ UNCHANGED <<expect, nread, readok, nwritten>>

\* power is back: file_open on what the flash holds
Reopen ==
    /\ status = "off"
    /\ LET m == file_open(Machine(flash, NewHandle, -1, "none"))
       IN /\ flash' = m.fl
          /\ handle' = m.h
          /\ status' = IF m.hung THEN "hung" ELSE "run"
    /\ open_handles' = open_handles + 1
    /\ live' = Rebase(live)
    /\ expect' = [k \in 1..Len(live) |-> [from |-> live[k].from, len |-> live[k].len]]
    /\ nread' = 0
    /\ readok' = TRUE
    /\ UNCHANGED <<inflight, nwritten, calls>>

\* the operations of a call at which power may be lost: before the first
\* ones, and around the last payload byte and the state byte
CutPoints(len) == (0..2) \cup ((len + 1)..(len + 2))

\* the calls that took effect, over a run with power loss
CutBudget == calls.w + calls.r + calls.c < MaxCutCalls

NextCut ==
    \/ \E len \in WriteLens : CutBudget /\ Write(len)
    \/ \E n \in ReadSizes : CutBudget /\ Read(n)
    \/ \E n \in ConsumeSizes : CutBudget /\ Consume(n)
    \/ \E len \in WriteLens : \E k \in CutPoints(len) : WriteCut(len, k)
    \/ \E n \in ConsumeSizes : \E k \in 0..2 : \E mode \in GarbleModes :
          ConsumeCut(n, k, mode)
    \/ Reopen

SpecCut == Init /\ [][NextCut]_vars

TypeOK ==
    /\ status \in {"run", "hung", "off"}
    /\ Len(flash) = FlashSize
    /\ \A a \in 1..FlashSize : flash[a] \in 0..255

----------------------------------------------------------------------------
(* Claims *)

\* the bytes still owed to the reader
OwedLeft == TotalLen(expect) - nread

\* the machine a call starts from on what the call before it left
After(m) == Machine(m.fl, m.h, -1, "none")

\* the read head stands at the start of a chunk and all reads so far were right
AtChunkStart == Ready /\ readok /\ handle.raw_read_chunk_offset = 0

\* C1: without power loss, reads that ask for no more than was written and
\* accepted return exactly the payloads of the accepted writes, in write
\* order, also across pages and dead page tails (reads from a chunk start on)
C1_ReadsReturnWrites ==
    AtChunkStart =>
        \A n \in ReadSizes :
            n <= OwedLeft =>
                LET m == file_read(Now, n)
                IN m.hung \/ (Len(m.out) = n /\ Matches(m.out, expect, nread))

\* C2: after a power loss and the next file_open, file_read yields exactly
\* the payloads of the chunks that are committed and not consumed, in order
C2_RecoveredReads ==
    (AtChunkStart /\ calls.cuts > 0) =>
        \A n \in ReadSizes :
            LET m == file_read(Now, n)
            IN m.hung \/ (/\ Len(m.out) = (IF n < OwedLeft THEN n ELSE OwedLeft)
                          /\ Matches(m.out, expect, nread))

\* the flash operations of a write in which the size byte, the payload and
\* the state byte 0xFE of its chunk go out in this order
InOrder(m, data) ==
    \E i, j, k \in 1..Len(m.ops) :
        /\ i < j /\ j < k
        /\ m.ops[i] = [a |-> start + m.chunk, d |-> <<Len(data)>>]
        /\ m.ops[j] = [a |-> start + m.chunk + 2, d |-> data]
        /\ m.ops[k] = [a |-> start + m.chunk + 1, d |-> <<254>>]

\* the chunk of the interrupted write has its size byte and all its payload
OnFlash(c) ==
    /\ Rd(flash, start + c.chunk) = c.arg
    /\ store_read(flash, start + c.chunk + 2, c.arg) = Payload(c.from, c.arg)

\* C3: file_write writes the size byte, then the payload, then the state
\* byte 0xFE; wherever power is lost, the state byte of the chunk reads 0xFE
\* only when its size byte and its whole payload are on flash
C3_StateByteLast ==
    /\ Ready =>
          \A len \in WriteLens :
              LET data == Payload(nwritten, len)
                  m == file_write(Now, data, len)
              IN m.ret # 0 => InOrder(m, data)
    /\ (status = "off" /\ inflight.op = "write" /\ inflight.chunk # -1) =>
          (Rd(flash, start + inflight.chunk + 1) = 254 => OnFlash(inflight))

\* the chunk of the interrupted write is on flash as the power loss left it:
\* its size byte written, its state byte not (an Invalid chunk)
LeftInvalid ==
    /\ inflight.op = "write" /\ inflight.chunk # -1
    /\ Rd(flash, start + inflight.chunk) = inflight.arg
    /\ Rd(flash, start + inflight.chunk + 1) = 255

\* C4: every byte file_read returns lies in the payload of a chunk whose
\* state byte is 0xFE: no byte of the payload of an Invalid chunk is returned,
\* wherever the chunk lies and also when the read head stands on it
C4_NoInvalidPayload ==
    (Ready /\ LeftInvalid) =>
        \A n \in ReadSizes :
            LET m == file_read(Now, n)
            IN \A k \in 1..Len(m.src) :
                  Overlap(m.src[k].a, m.src[k].n, start + inflight.chunk + 2,
                          start + inflight.chunk + 2 + inflight.arg) = 0

\* C5: file_read stops at the write head: once every committed byte has been
\* returned, a read returns 0 and no byte a second time, also while the ring
\* is full and the write head is stalled
C5_StopsAtWriteHead ==
    (AtChunkStart /\ OwedLeft = 0) =>
        \A n \in ReadSizes :
            LET m == file_read(Now, n)
            IN ~m.hung /\ m.ret = 0 /\ m.out = <<>>

\* C6: when everything written has been read and then a record is written,
\* in the same page or in the next one, the next file_read returns exactly
\* the payload of that record
C6_ReadAfterCatchUp ==
    (AtChunkStart /\ OwedLeft = 0) =>
        \A len \in WriteLens :
            LET data == Payload(nwritten, len)
                w == file_write(Now, data, len)
                r == file_read(After(w), len)
            IN w.ret # 0 => (~r.hung /\ r.out = data)

\* where a read of n bytes may be split in two
SplitPoints(n) == {k \in {1, n - 1} \cup ReadSizes : 0 < k /\ k < n}

\* C7: a read of k bytes followed by a read of n - k bytes returns the same
\* bytes and leaves the read head at the same place as one read of n bytes
C7_SplitRead ==
    AtChunkStart =>
        \A n \in ReadSizes : \A k \in SplitPoints(n) :
            LET whole == file_read(Now, n)
                first == file_read(Now, k)
                second == file_read(After(first), n - k)
            IN (~whole.hung /\ ~first.hung) =>
                  /\ ~second.hung
                  /\ first.out \o second.out = whole.out
                  /\ second.h = whole.h

\* C8: without power loss every call of file_read, file_consume and
\* file_write returns
C8_CallsReturn ==
    Ready =>
        /\ \A n \in ReadSizes : ~file_read(Now, n).hung
        /\ \A n \in ConsumeSizes : ~file_consume(Now, n).hung
        /\ \A len \in WriteLens : ~file_write(Now, Payload(nwritten, len), len).hung

C10_ConsumeOnlyRead ==
    Ready =>
        \A n \in ConsumeSizes \cup {FILE_SIZE} :
            LET m == file_consume(Now, n)
            IN \A k \in 1..Len(m.flips) :
                  \E c \in 1..Len(live) :
                      live[c].a = m.flips[k].a /\ live[c].got >= live[c].len

\* power was lost in a write after its state byte went out
C3_Witness ==
    /\ status = "off" /\ inflight.op = "write" /\ inflight.chunk # -1
    /\ Rd(flash, start + inflight.chunk + 1) = 254
    /\ OnFlash(inflight)

\* a chunk is read and another is not, and file_consume flips the first only
C10_Witness ==
    /\ Ready /\ Len(live) >= 2
    /\ live[1].got >= live[1].len /\ live[2].got < live[2].len
    /\ Len(file_consume(Now, FILE_SIZE).flips) = 1

----------------------------------------------------------------------------
(* Claims on file_consume and the page erase *)

\* the sum of the size bytes of the chunks a call flipped
RECURSIVE FlippedBytes(_)
FlippedBytes(flips) ==
    IF flips = <<>> THEN 0 ELSE Head(flips).size + FlippedBytes(Tail(flips))

\* the flipped chunks are the first committed and unconsumed chunks, in the
\* order of their writes
OldestFirst(flips, chunks) ==
    /\ Len(flips) <= Len(chunks)
    /\ \A k \in 1..Len(flips) :
          flips[k].a = chunks[k].a /\ flips[k].size = chunks[k].len

\* C11: file_consume(n) returns the sum of the size bytes of the chunks whose
\* state byte it flipped, which is at most n; the flipped chunks were Valid
\* (a chunk that never was is not counted) and are the oldest unconsumed
\* chunks in write order
C11_ConsumeReturn ==
    Ready =>
        \A n \in ConsumeSizes \cup {FILE_SIZE} :
            LET m == file_consume(Now, n)
            IN m.hung \/
               /\ m.ret = FlippedBytes(m.flips)
               /\ m.ret <= n
               /\ \A k \in 1..Len(m.flips) : m.flips[k].was = 254
               /\ OldestFirst(m.flips, live)

\* the page of the file an offset lies in
PageAt(off) == off \div FLASH_PAGE_SIZE

\* the call flipped a chunk of page p and no committed chunk of the page is
\* left unconsumed after it
EmptiesPage(m, p) ==
    /\ \E k \in 1..Len(m.flips) : PageAt(m.flips[k].a) = p
    /\ \A c \in 1..Len(live) :
          PageAt(live[c].a) = p => \E k \in 1..Len(m.flips) : m.flips[k].a = live[c].a

\* the bytes of page p all read 0xFF
PageErased(fl, p) ==
    Sub(fl, start + p * FLASH_PAGE_SIZE + 1, start + (p + 1) * FLASH_PAGE_SIZE)
        = ErasedBytes(FLASH_PAGE_SIZE)

\* the flash with the state bytes of the flipped chunks set to Consumed
RECURSIVE WithFlips(_, _)
WithFlips(fl, flips) ==
    IF flips = <<>> THEN fl
    ELSE WithFlips(store_write(fl, start + Head(flips).a + 1, 252), Tail(flips))

\* outside the pages the call erased, a byte changed only when it is the
\* state byte of a chunk the call flipped
OnlyFlips(m) ==
    LET want == WithFlips(flash, m.flips)
    IN \A p \in 0..((FlashSize \div FLASH_PAGE_SIZE) - 1) :
          \/ \E k \in 1..Len(m.erased) : PageAt(m.erased[k]) = p
          \/ Sub(m.fl, p * FLASH_PAGE_SIZE + 1, (p + 1) * FLASH_PAGE_SIZE)
               = Sub(want, p * FLASH_PAGE_SIZE + 1, (p + 1) * FLASH_PAGE_SIZE)

\* C12: when file_consume consumes the last unconsumed chunk of a page while
\* the write head and the raw read head are outside the page, the page reads
\* 0xFF throughout when the call returns, and no other page is changed but
\* for the state bytes the call flipped
C12_EmptiedPageErased ==
    Ready =>
        \A n \in ConsumeSizes \cup {FILE_SIZE} :
            LET m == file_consume(Now, n)
            IN m.hung \/
               /\ OnlyFlips(m)
               /\ \A p \in 0..(PAGES_PER_FILE - 1) :
                     (/\ EmptiesPage(m, p)
                      /\ PageAt(m.h.write_offset) # p
                      /\ PageAt(m.h.raw_read_chunk_start) # p)
                     => PageErased(m.fl, p)

----------------------------------------------------------------------------
(* Opening and closing the handle *)

\* file_open and file_close calls in a run that opens and closes
MaxOpens == 3
\* calls that take effect in a run that opens and closes
MaxOpenCalls == 3

\* file_open that takes every call for the first
file_open_handle_NoLimit(m, n) ==
    [file_open(m) EXCEPT !.ret = 1, !.chunk = n + 1]

\* file_open(id) with n = open_handles[id]: ret is 0 for NULL; chunk carries
\* open_handles[id] after the call
file_open_handle(m, n) ==
    IF n >= MAX_HANDLES THEN [m EXCEPT !.ret = 0, !.chunk = n]
    ELSE [file_open(m) EXCEPT !.ret = 1, !.chunk = n + 1]

\* file_close: file_sync does nothing; --open_handles[id] on a uint8_t
file_close(n) == (n + U8 - 1) % U8

\* history of an open that succeeded: the live chunks are owed again
Opened(m) ==
    /\ flash' = m.fl
    /\ handle' = m.h
    /\ status' = IF m.hung THEN "hung" ELSE "run"
    /\ live' = Rebase(live)
    /\ expect' = [k \in 1..Len(live) |-> [from |-> live[k].from, len |-> live[k].len]]
    /\ nread' = 0
    /\ readok' = TRUE

\* file_open while the handle is open
OpenAgain ==
    /\ Ready
    /\ calls.o < MaxOpens
    /\ LET m == file_open_handle(Now, open_handles)
       IN /\ open_handles' = m.chunk
          /\ IF m.ret = 0
             THEN UNCHANGED <<flash, handle, status, live, expect, nread, readok>>
             ELSE Opened(m)
    /\ calls' = [calls EXCEPT !.o = @ + 1]
    /\ UNCHANGED <<inflight, nwritten>>

\* file_close of the open handle
Close ==
    /\ Ready
    /\ calls.o < MaxOpens
    /\ handle' = NoHandle
    /\ open_handles' = file_close(open_handles)
    /\ calls' = [calls EXCEPT !.o = @ + 1]
    /\ UNCHANGED <<flash, status, inflight, live, expect, nread, readok, nwritten>>

\* file_open after file_close
Open ==
    /\ status = "run" /\ handle = NoHandle
    /\ LET m == file_open_handle(Machine(flash, NewHandle, -1, "none"), open_handles)
       IN /\ open_handles' = m.chunk
          /\ IF m.ret = 0
             THEN UNCHANGED <<flash, handle, status, live, expect, nread, readok>>
             ELSE Opened(m)
    /\ calls' = [calls EXCEPT !.o = @ + 1]
    /\ UNCHANGED <<inflight, nwritten>>

OpenBudget == calls.w + calls.r + calls.c < MaxOpenCalls

NextOpen ==
    \/ \E len \in WriteLens : OpenBudget /\ Write(len)
    \/ \E n \in ReadSizes : OpenBudget /\ Read(n)
    \/ \E n \in ConsumeSizes : OpenBudget /\ Consume(n)
    \/ OpenAgain
    \/ Close
    \/ Open

SpecOpen == Init /\ [][NextOpen]_vars

----------------------------------------------------------------------------
(* Claims on file_write *)

\* lengths file_write has to turn down: more than a page holds, 255 and more,
\* and lengths beyond 255 whose low byte is the length of a record that fits
OversizeLens ==
    {FLASH_PAGE_SIZE - 2, FLASH_PAGE_SIZE - 1, 254, 255, 256, 257,
     256 + ((FLASH_PAGE_SIZE \div 2) - 3)}

\* a caller's buffer of len bytes
Buffer(len) == [k \in 1..len |-> PayloadByte(k)]

\* the flash writes of a call all went to counter bytes of pages
CountersOnly(m) ==
    \A k \in 1..Len(m.ops) :
        (m.ops[k].a - start) % FLASH_PAGE_SIZE = 0 /\ Len(m.ops[k].d) = 1

C15_RejectedWriteChangesNothing ==
    Ready =>
        \A len \in WriteLens \cup OversizeLens :
            LET m == file_write(Now, Buffer(len), len)
            IN m.ret = 0 =>
                  /\ m.fl = flash
                  /\ m.h.write_offset = handle.write_offset
                  /\ m.h.write_count = handle.write_count
                  /\ m.h.free_space = handle.free_space

\* the write head rests on the first byte of a page
AtPageStart == Ready /\ handle.write_offset % FLASH_PAGE_SIZE = 0

----------------------------------------------------------------------------
(* Claims on the heads and on the layout *)

\* the three heads of a handle lie inside the file
HeadsInFile(h) ==
    /\ h.write_offset >= 0 /\ h.write_offset < FILE_SIZE
    /\ h.raw_read_chunk_start >= 0 /\ h.raw_read_chunk_start < FILE_SIZE
    /\ h.destructive_read_offset >= 0 /\ h.destructive_read_offset < FILE_SIZE

\* C17: a head that reaches FILE_SIZE is reset to page 0, when the last page
\* is filled exactly and when a dead tail of the last page is skipped: after
\* every call that returns, write_offset, raw_read_chunk_start and
\* destructive_read_offset are below FILE_SIZE
C17_HeadsBelowFileSize ==
    Ready =>
        /\ HeadsInFile(handle)
        /\ \A len \in WriteLens :
              LET m == file_write(Now, Payload(nwritten, len), len)
              IN m.hung \/ HeadsInFile(m.h)
        /\ \A n \in ReadSizes :
              LET m == file_read(Now, n) IN m.hung \/ HeadsInFile(m.h)
        /\ \A n \in ConsumeSizes :
              LET m == file_consume(Now, n) IN m.hung \/ HeadsInFile(m.h)

\* the first chunk slot of the page that follows the page of offset w in the file
NextSlot(w) ==
    ((PageAt(w) + 1) % PAGES_PER_FILE) * FLASH_PAGE_SIZE + PAGE_COUNTER_SIZE

\* the chunk of len payload bytes at offset c lies in one page of the file and
\* on no counter byte
InOnePage(c, len) ==
    /\ c >= 0 /\ c + len + 2 <= FILE_SIZE
    /\ PageAt(c) = PageAt(c + len + 1)
    /\ c % FLASH_PAGE_SIZE # 0

\* C18: every chunk file_write writes lies within a single page of the file,
\* size byte, state byte and payload, and on no page counter byte; a record
\* that does not fit the rest of the current page goes to the first chunk
\* slot of the next page
C18_ChunkInOnePage ==
    Ready =>
        \A len \in WriteLens :
            LET w == handle.write_offset
                w0 == IF w % FLASH_PAGE_SIZE = 0 THEN w + PAGE_COUNTER_SIZE ELSE w
                m == file_write(Now, Payload(nwritten, len), len)
            IN m.ret # 0 =>
                  /\ InOnePage(m.chunk, len)
                  /\ \A k \in 1..Len(m.ops) :
                        \/ (m.ops[k].a - start) % FLASH_PAGE_SIZE = 0
                        \/ /\ m.ops[k].a >= start + m.chunk
                           /\ m.ops[k].a + Len(m.ops[k].d) <= start + m.chunk + len + 2
                  /\ m.chunk = IF PageAt(w0 + len + 1) = PageAt(w0) THEN w0
                               ELSE NextSlot(w0)

\* the same without the demand that the page is a page of the file
C18_NoStraddle ==
    Ready =>
        \A len \in WriteLens :
            LET m == file_write(Now, Payload(nwritten, len), len)
            IN m.ret # 0 =>
                  /\ PageAt(m.chunk) = PageAt(m.chunk + len + 1)
                  /\ m.chunk % FLASH_PAGE_SIZE # 0

\* the write head has len + 2 bytes of room left in its page
RoomInPage(w, len) ==
    /\ w % FLASH_PAGE_SIZE # 0
    /\ w + len + 2 <= (PageAt(w) + 1) * FLASH_PAGE_SIZE

\* the flash after the call holds the chunk of data at offset w and is
\* otherwise, within the page of w, what fl was; the call returns len and
\* takes len + 2 bytes from free_space
ChunkWritten(fl, h, m, w, data, len) ==
    LET p == PageAt(w)
        lo == start + p * FLASH_PAGE_SIZE
    IN /\ m.ret = len
       /\ Rd(m.fl, start + w) = len
       /\ Rd(m.fl, start + w + 1) = 254
       /\ Sub(m.fl, start + w + 3, start + w + 2 + len) = data
       /\ Sub(m.fl, lo + 1, start + w) = Sub(fl, lo + 1, start + w)
       /\ Sub(m.fl, start + w + len + 3, lo + FLASH_PAGE_SIZE)
             = Sub(fl, start + w + len + 3, lo + FLASH_PAGE_SIZE)
       /\ m.h.free_space = Sub32(h.free_space, len + 2)

\* where advance_write_pointer leaves a head that has moved to offset e
HeadAfter(fl, e) ==
    LET e1 == IF e >= FILE_SIZE THEN 0 ELSE e
    IN IF e1 % FLASH_PAGE_SIZE = 0 /\ Rd(fl, start + e1) = 255
       THEN e1 + PAGE_COUNTER_SIZE
       ELSE e1

ChunkStates == {255, 254, 252}

\* the chunk headers of fl from offset o up to the end of the page at offset
\* stop: each is Erased (0xFF, 0xFF), after which the page holds no chunk, or
\* has a size of 1..254 and one of the three states
RECURSIVE HeadersLegal(_, _, _)
HeadersLegal(fl, o, stop) ==
    IF o + 2 > stop THEN TRUE
    ELSE LET size == Rd(fl, start + o)
             state == Rd(fl, start + o + 1)
         IN IF size = 255 THEN state = 255
            ELSE /\ size \in 1..254
                 /\ state \in ChunkStates
                 /\ HeadersLegal(fl, o + size + 2, stop)

\* every chunk header and every counter byte of the file is legal
FlashLegal(fl) ==
    \A p \in 0..(PAGES_PER_FILE - 1) :
        /\ Rd(fl, start + p * FLASH_PAGE_SIZE) \in LegalCounters
        /\ HeadersLegal(fl, p * FLASH_PAGE_SIZE + PAGE_COUNTER_SIZE,
                        (p + 1) * FLASH_PAGE_SIZE)

\* the write lengths tried on every state besides those of WriteLens
EdgeLens == {0, 1, 254, 255, FLASH_PAGE_SIZE - 1}

\* the flash between the calls of a run without power loss
C20_FlashLegalBetweenCalls == Ready => FlashLegal(flash)

\* C20: after every operation that returns, without power loss, every chunk
\* header on flash is Erased, Invalid, Valid or Consumed and every page
\* counter byte is in the legal set, for every length that file_write does
\* not turn down
C20_HeadersLegal ==
    Ready =>
        /\ FlashLegal(flash)
        /\ \A len \in EdgeLens :
              LET m == file_write(Now, Buffer(len), len)
              IN m.hung \/ FlashLegal(m.fl)

----------------------------------------------------------------------------
(* Claims on file_open *)

\* file_close and file_open of the file whose flash is fl
Reopened(fl) == file_open(Machine(fl, NewHandle, -1, "none"))

\* all the data file_read has returned has been consumed
AllReadConsumed(h) ==
    /\ h.raw_read_chunk_start = h.destructive_read_offset
    /\ h.raw_read_chunk_offset = 0

\* the fields of a handle that the flash determines
SameHeads(g, h) ==
    /\ g.write_offset = h.write_offset
    /\ g.destructive_read_offset = h.destructive_read_offset
    /\ g.write_count = h.write_count
    /\ g.free_space = h.free_space

\* C21: after writes, reads and consumes without power loss that leave the
\* raw read head on the destructive read head, file_close and file_open give
\* a handle with the write_offset, destructive_read_offset, write_count and
\* free_space the handle had before
C21_ReopenKeepsHeads ==
    (Ready /\ AllReadConsumed(handle)) =>
        LET m == Reopened(flash)
        IN ~m.hung /\ SameHeads(m.h, handle)

\* C22: file_open, file_close, file_open leave the flash and the handle as the
\* first file_open alone left them, on every flash image open is called on
C22_OpenCloseOpen ==
    LET m1 == Reopened(flash)
        m2 == Reopened(m1.fl)
    IN ~m1.hung => (~m2.hung /\ m2.fl = m1.fl /\ m2.h = m1.h)

\* the page the write head has entered last: the page it stands in, or the
\* page before when it waits on the counter byte of a page
LastEntered(h) ==
    IF h.write_offset % FLASH_PAGE_SIZE = 0
    THEN PageAt((h.write_offset + FILE_SIZE - 1) % FILE_SIZE)
    ELSE PageAt(h.write_offset)

\* the records of a run that goes round the ring fill a page each
LapLens == {FLASH_PAGE_SIZE - 3}

LapReads == {(FLASH_PAGE_SIZE \div 2) - 3, FLASH_PAGE_SIZE - 3}

LapWrite(len) == calls.w < MaxLapWrites /\ Written(len)

\* file_read is offered while bytes that were written have not been read
LapRead(n) == nread < nwritten /\ ReadBack(n)

LapConsume(n) == Consumed(n)

NextLap ==
    \/ \E len \in LapLens : LapWrite(len)
    \/ \E n \in LapReads : LapRead(n)
    \/ \E n \in LapLens : LapConsume(n)

\* writes, reads and consumes that take the write head round the ring often
\* enough for write_count to start again at 1
SpecLap == Init /\ [][NextLap]_vars

CutInWrite == status = "off" /\ LeftInvalid

\* the records that were committed before the power loss and not consumed
CommittedRecords == [k \in 1..Len(live) |-> [from |-> live[k].from, len |-> live[k].len]]

\* the write head of m stands right behind the chunk of len payload bytes at
\* offset c, moved on as advance_write_pointer moves it at the end of a page
HeadBehind(fl, m, c, len) ==
    m.h.write_offset = HeadAfter(fl, c + len + 2)

\* every flash write of the call m went to bytes that read 0xFF in fl
OnErasedOnly(fl, m) ==
    \A k \in 1..Len(m.ops) :
        LET a == m.ops[k].a
            n == Len(m.ops[k].d)
        IN Sub(fl, a + 1, a + n) = ErasedBytes(n)

\* file_open puts the write head behind the Invalid chunk
C24_HeadBehindInvalid ==
    CutInWrite =>
        LET m == Reopened(flash)
        IN ~m.hung /\ HeadBehind(flash, m, inflight.chunk, inflight.arg)

\* the next file_write after the file_open touches erased bytes only
C24_AppendsOnErased ==
    CutInWrite =>
        LET m == Reopened(flash)
        IN ~m.hung =>
             \A len \in WriteLens :
                 OnErasedOnly(m.fl, file_write(After(m), Buffer(len), len))

\* file_read after the file_open returns bytes of committed records only
C24_ReadsCommittedOnly ==
    CutInWrite =>
        LET m == Reopened(flash)
        IN ~m.hung =>
             \A n \in ReadSizes :
                 LET r == file_read(After(m), n)
                 IN ~r.hung /\ Matches(r.out, CommittedRecords, 0)

\* C24: after a power loss between the write of the size byte and the commit
\* of a record, file_open puts write_offset right behind the Invalid chunk,
\* the next file_write touches no byte that is not erased, and file_read
\* returns the records committed before only
C24_RecoveryAfterCutInWrite ==
    /\ C24_HeadBehindInvalid
    /\ C24_AppendsOnErased
    /\ C24_ReadsCommittedOnly

\* going round the ring from d, the offset r comes no later than w
CyclicOrder(d, r, w) ==
    (r + FILE_SIZE - d) % FILE_SIZE <= (w + FILE_SIZE - d) % FILE_SIZE

HeadsInOrder(h) ==
    CyclicOrder(h.destructive_read_offset, h.raw_read_chunk_start, h.write_offset)

\* C25: on every flash image that a power loss in a write, a commit, a
\* consume or an erase leaves, file_open returns, with the three heads inside
\* the file and destructive_read_offset, raw_read_chunk_start, write_offset in
\* the cyclic order of the ring
C25_OpenAfterCut ==
    status = "off" =>
        LET m == Reopened(flash)
        IN ~m.hung /\ HeadsInFile(m.h) /\ HeadsInOrder(m.h)

\* the power loss of the call m fell into a page erase: of the k + 1
\* operations the call began, the last was an erase
CutInErase(m, k) ==
    /\ m.pw = -2
    /\ m.erased # <<>>
    /\ Len(m.ops) + Len(m.erased) = k + 1

\* the chunk c, committed and not consumed, is on fl as it was written
ChunkIntact(fl, c) ==
    /\ Rd(fl, start + c.a) = c.len
    /\ Rd(fl, start + c.a + 1) = 254
    /\ Sub(fl, start + c.a + 3, start + c.a + 2 + c.len) = Payload(c.from, c.len)

\* the call o leaves page p erased: all its bytes read 0xFF, but for the
\* counter byte when the write head has entered the page after the erase
ErasedByOpen(o, p) ==
    /\ Rd(o.fl, start + p * FLASH_PAGE_SIZE) \in LegalCounters
    /\ Sub(o.fl, start + p * FLASH_PAGE_SIZE + 2, start + (p + 1) * FLASH_PAGE_SIZE)
          = ErasedBytes(FLASH_PAGE_SIZE - 1)

\* file_open after the interrupted call m has erased the page the erase was
\* cut in and has left the committed chunks of the other pages as they were
RepairedAfter(m) ==
    LET p == PageAt(m.erased[Len(m.erased)] - start)
        o == Reopened(m.fl)
        left == DropAll(live, m.flips)
    IN /\ ~o.hung
       /\ ErasedByOpen(o, p)
       /\ \A k \in 1..Len(left) :
             PageAt(left[k].a) # p => ChunkIntact(o.fl, left[k])

----------------------------------------------------------------------------
(* Claims on the history of a chunk *)

\* the power budgets of a call: none (-1), or lost after k operations
WriteBudgets(len) == {-1} \cup CutPoints(len)
ConsumeBudgets == -1..2

\* the call m was not cut short by a power loss
Returned(m) == m.pw # -2

\* the size byte and the whole payload of the chunk of the call m are on flash
ChunkComplete(m, data) ==
    /\ Rd(m.fl, start + m.chunk) = Len(data)
    /\ store_read(m.fl, start + m.chunk + 2, Len(data)) = data

----------------------------------------------------------------------------
(* Claims on the erases of a call *)

\* the call m has issued at most one flash_erase
AtMostOneErase(m) == Len(m.erased) <= 1

\* C28: no call of file_write, file_read, file_consume or file_open erases
\* more than one page, also not a file_consume whose request covers chunks of
\* several pages
C28_OneErasePerCall ==
    /\ Ready =>
          /\ \A len \in WriteLens :
                AtMostOneErase(file_write(Now, Payload(nwritten, len), len))
          /\ \A n \in ReadSizes : AtMostOneErase(file_read(Now, n))
          /\ \A n \in ConsumeSizes : AtMostOneErase(file_consume(Now, n))
    /\ AtMostOneErase(Reopened(flash))

----------------------------------------------------------------------------
(* Claims on the order of the heads and on free_space *)

RECURSIVE UnconsumedBytes(_, _, _)
UnconsumedBytes(fl, o, stop) ==
    IF o + 2 > stop \/ Rd(fl, start + o) = 255 THEN 0
    ELSE LET size == Rd(fl, start + o)
         IN (IF Rd(fl, start + o + 1) = 252 THEN 0 ELSE size + 2)
            + UnconsumedBytes(fl, o + size + 2, stop)

\* the offset behind the last chunk of a page
RECURSIVE EndOfChunks(_, _, _)
EndOfChunks(fl, o, stop) ==
    IF o + 2 > stop \/ Rd(fl, start + o) = 255 THEN o
    ELSE EndOfChunks(fl, o + Rd(fl, start + o) + 2, stop)

\* the dead tail of page p: the bytes behind its last chunk, once the write
\* head has left the page
DeadTail(fl, h, p) ==
    LET stop == (p + 1) * FLASH_PAGE_SIZE
        e == EndOfChunks(fl, p * FLASH_PAGE_SIZE + PAGE_COUNTER_SIZE, stop)
    IN IF h.write_offset = e THEN 0 ELSE IF e > stop THEN 0 ELSE stop - e

\* what free_space is said to be: FILE_SIZE less the unconsumed chunks, the
\* dead tails and one counter byte for each page that is not erased
Accounted(fl, h) ==
    LET Used[p \in 0..PAGES_PER_FILE] ==
            IF p = PAGES_PER_FILE THEN 0
            ELSE Used[p + 1]
                 + (IF PageErased(fl, p) THEN 0
                    ELSE PAGE_COUNTER_SIZE
                         + UnconsumedBytes(fl, p * FLASH_PAGE_SIZE + PAGE_COUNTER_SIZE,
                                           (p + 1) * FLASH_PAGE_SIZE)
                         + DeadTail(fl, h, p))
    IN FILE_SIZE - Used[0]

\* C30: after every call that returns, free_space is FILE_SIZE less size + 2
\* for every unconsumed chunk, less the dead tail bytes, less one counter
\* byte for each page that is not erased
C30_FreeSpaceAccounted == Ready => handle.free_space = Accounted(flash, handle)

\* FILE_SIZE less the unconsumed chunks, the dead tails and one counter byte
\* for every page of the file, erased or not
AccountedAllCounters(fl, h) ==
    LET Used[p \in 0..PAGES_PER_FILE] ==
            IF p = PAGES_PER_FILE THEN 0
            ELSE Used[p + 1]
                 + PAGE_COUNTER_SIZE
                 + (IF PageErased(fl, p) THEN 0
                    ELSE UnconsumedBytes(fl, p * FLASH_PAGE_SIZE + PAGE_COUNTER_SIZE,
                                         (p + 1) * FLASH_PAGE_SIZE)
                         + DeadTail(fl, h, p))
    IN FILE_SIZE - Used[0]

\* C30 with a counter byte taken off for every page of the file
C30_FreeSpaceAllCounters ==
    Ready => handle.free_space = AccountedAllCounters(flash, handle)

\* C30 for the handle that file_open builds from the flash as it is, again
\* with a counter byte taken off for every page of the file
C30_FreeSpaceAfterOpen ==
    Ready => LET o == Reopened(flash)
             IN ~o.hung => o.h.free_space = AccountedAllCounters(o.fl, o.h)

----------------------------------------------------------------------------
(* Claims on where a head rests *)

\* offset at is the size byte of a chunk in state Valid: not a counter byte,
\* not a byte of a dead page tail, and the state byte lies in the same page
OnValidChunk(fl, at) ==
    /\ at < FILE_SIZE
    /\ at % FLASH_PAGE_SIZE # 0
    /\ (at + 1) % FLASH_PAGE_SIZE # 0
    /\ Rd(fl, start + at) # 255
    /\ Rd(fl, start + at + 1) = 254

\* the raw read head has caught up with the write head or is on a Valid chunk
ReadHeadRests(m) ==
    \/ m.h.raw_read_chunk_start = m.h.write_offset
    \/ OnValidChunk(m.fl, m.h.raw_read_chunk_start)

\* the destructive head has caught up with the raw read head or is on a
\* Valid chunk
DestructiveHeadRests(m) ==
    \/ m.h.destructive_read_offset = m.h.raw_read_chunk_start
    \/ OnValidChunk(m.fl, m.h.destructive_read_offset)

TailLens == {(FLASH_PAGE_SIZE \div 2) - 3, FLASH_PAGE_SIZE - 3}

TailSizes == {FLASH_PAGE_SIZE - 3}

TailWrite(len) == calls.w < MaxTailWrites /\ Written(len)

TailRead(n) == nread < nwritten /\ ReadBack(n)

TailConsume(n) == Consumed(n)

NextTail ==
    \/ \E len \in TailLens : TailWrite(len)
    \/ \E n \in TailSizes : TailRead(n)
    \/ \E n \in TailSizes : TailConsume(n)

SpecTail == Init /\ [][NextTail]_vars

----------------------------------------------------------------------------
(* Claims on what an erase may hit *)

\* offset off lies in the page that starts at offset ps
InPage(off, ps) == ps <= off /\ off < ps + FLASH_PAGE_SIZE

\* none of the erases of call m hit a page that held one of the chunks, which
\* the flash fl showed as Valid before the call, nor the page the write head
\* is in, past its counter byte, nor the page the raw read head is in
SafeErases(m, fl, chunks) ==
    \A k \in 1..Len(m.erased) :
        LET ps == m.erased[k] - start
        IN /\ \A j \in 1..Len(chunks) :
                  ~(InPage(chunks[j].a, ps) /\ Rd(fl, start + chunks[j].a + 1) = 254)
           /\ ~(InPage(m.h.write_offset, ps) /\ m.h.write_offset # ps)
           /\ ~InPage(m.h.raw_read_chunk_start, ps)

C32_OpenErases ==
    /\ Ready
    /\ live # <<>>
    /\ Reopened(flash).erased # <<>>

----------------------------------------------------------------------------
(* Claims on the counter bytes *)

\* a flash write of one byte onto the first byte of a page
IsCounterWrite(o) ==
    Len(o.d) = 1 /\ (o.a - start) % FLASH_PAGE_SIZE = 0

\* the byte at address a read 0xFF when call m, started on flash fl, wrote it
WasErased(m, fl, a) ==
    \/ Rd(fl, a) = 255
    \/ \E k \in 1..Len(m.erased) : InPage(a, m.erased[k])

\* counter d is the one that follows counter c in the cycle
Follows(c, d) == d = (IF c = 0 THEN 254 ELSE (2 * c) % U8)

\* the page entered before the page at address a holds the counter that
\* comes before d, unless it has been erased since
AfterPageBefore(fl, a, d) ==
    LET p == (a - start) \div FLASH_PAGE_SIZE
        q == (p + PAGES_PER_FILE - 1) % PAGES_PER_FILE
        c == Rd(fl, start + q * FLASH_PAGE_SIZE)
    IN p < PAGES_PER_FILE => (c = 255 \/ Follows(c, d))

\* goes through the flash writes of call m from the k-th on: the write_count
\* after them when every counter written is (0xFF << write_count) & 0xFF, on
\* a byte that read 0xFF, with write_count stepping 1, 2, .. 8, 1; else -1
RECURSIVE CounterTrack(_, _, _, _)
CounterTrack(m, fl, k, wc) ==
    IF k > Len(m.ops) THEN wc
    ELSE LET o == m.ops[k]
         IN IF ~IsCounterWrite(o) THEN CounterTrack(m, fl, k + 1, wc)
            ELSE IF /\ wc \in 1..8
                    /\ o.d[1] = (255 * (2 ^ wc)) % 256
                    /\ WasErased(m, fl, o.a)
                 THEN CounterTrack(m, fl, k + 1, (wc % 8) + 1)
                 ELSE -1

\* the counters written by call m follow the counters on the flash
CountersInCycle(m, fl) ==
    \A k \in 1..Len(m.ops) :
        IsCounterWrite(m.ops[k]) => AfterPageBefore(fl, m.ops[k].a, m.ops[k].d[1])

\* C33 (running handle): the counters file_write writes are
\* (0xFF << write_count) & 0xFF on bytes that read 0xFF, write_count steps
\* 1, 2, .. 8, 1 with each of them and stays in 1..8
C33_CounterFromWriteCount ==
    Ready =>
        /\ handle.write_count \in 1..8
        /\ \A len \in WriteLens :
               LET m == file_write(Now, Payload(nwritten, len), len)
               IN CounterTrack(m, flash, 1, handle.write_count) = m.h.write_count

\* C33 (cycle): successive page entries receive 0xFE, 0xFC, .. 0x00, 0xFE ..
C33_CountersInCycle ==
    Ready =>
        \A len \in WriteLens :
            CountersInCycle(file_write(Now, Payload(nwritten, len), len), flash)

\* C33 (file_open): the counter file_open writes is the one of the
\* write_count before the one it returns, on a byte that read 0xFF
C33_CounterOfOpen ==
    handle # NoHandle \/ status = "off" =>
        LET o == Reopened(flash)
        IN /\ o.h.write_count \in 1..8
           /\ \A k \in 1..Len(o.ops) :
                  IsCounterWrite(o.ops[k]) =>
                      /\ CounterTrack(o, flash, k,
                                      ((o.h.write_count + 6) % 8) + 1) # -1
                      /\ AfterPageBefore(flash, o.ops[k].a, o.ops[k].d[1])

----------------------------------------------------------------------------
(* Claims on the read heads after file_open *)

\* the raw read head of h is seeded with the destructive read head
ReadHeadSeeded(h) ==
    /\ h.raw_read_chunk_start = h.destructive_read_offset
    /\ h.raw_read_chunk_offset = 0

\* the destructive read head of h is on the oldest committed chunk that has
\* not been consumed, or on the write head when there is none
OnOldestChunk(h, chunks) ==
    h.destructive_read_offset =
        (IF chunks = <<>> THEN h.write_offset ELSE chunks[1].a)

\* file_read on the handle of call o returns all the payload of the chunks
ReadsAgain(o, chunks) ==
    LET r == file_read(After(o), TotalLen(chunks))
    IN ~r.hung /\ r.out = OwedSlice(chunks, 0, TotalLen(chunks))

\* after file_open the raw read head is seeded with the destructive read head
C34_Seeded == Ready => LET o == Reopened(flash) IN ~o.hung => ReadHeadSeeded(o.h)

\* after file_open the destructive read head is on the oldest unconsumed chunk
C34_Oldest == Ready => LET o == Reopened(flash) IN ~o.hung => OnOldestChunk(o.h, live)

\* after file_open file_read returns all that was committed and not consumed
C34_Again == Ready => LET o == Reopened(flash) IN ~o.hung => ReadsAgain(o, live)

----------------------------------------------------------------------------
(* Claims on a record that fills its page *)

\* len + 2 is the number of bytes left in the page of the write head w
ExactFit(w, len) ==
    /\ w < FILE_SIZE
    /\ w % FLASH_PAGE_SIZE # 0
    /\ w + len + 2 = (PageAt(w) + 1) * FLASH_PAGE_SIZE

\* the write head of call m is behind the counter byte of the page that
\* follows the page of w, written by the call, when that byte read 0xFF on
\* fl, and on that byte when it did not
OnNextPage(fl, h, m, w) ==
    LET q == NextSlot(w) - PAGE_COUNTER_SIZE
    IN IF Rd(fl, start + q) = 255
       THEN /\ m.h.write_offset = q + PAGE_COUNTER_SIZE
            /\ Rd(m.fl, start + q) = Counter(h.write_count)
       ELSE /\ m.h.write_offset = q
            /\ Rd(m.fl, start + q) = Rd(fl, start + q)

\* C35: a file_write whose len + 2 is the number of bytes left in the page of
\* the write head is placed in that page and fills it, takes len + 2 from
\* free_space, and leaves the write head behind the counter of the next page
\* if that page was erased, on its first byte if not
C35_ExactFit ==
    Ready =>
        \A len \in WriteLens :
            LET w == handle.write_offset
                data == Payload(nwritten, len)
                m == file_write(Now, data, len)
            IN (ExactFit(w, len) /\ ~Below32(free_space(handle), len + 2)) =>
                  /\ ChunkWritten(flash, handle, m, w, data, len)
                  /\ OnNextPage(flash, handle, m, w)

\* a record has filled its page and the write head waits on the first byte
\* of the next page, and another has filled its page and the head moved in
C35_Witness ==
    /\ Ready
    /\ handle.write_offset % FLASH_PAGE_SIZE = 0
    /\ \E k \in 1..Len(live) :
          /\ ExactFit(live[k].a, live[k].len)
          /\ (live[k].a + live[k].len + 2) % FILE_SIZE = handle.write_offset
    /\ \E k \in 1..Len(live) :
          /\ ExactFit(live[k].a, live[k].len)
          /\ (live[k].a + live[k].len + 2) % FILE_SIZE # handle.write_offset

----------------------------------------------------------------------------
(* Claims on the flash outside the file *)

\* the bytes of the chip behind the region of the file
BehindFile(fl) == Sub(fl, start + FILE_SIZE + 1, FlashSize)

\* call m has written and erased inside the region of the file only
InsideFile(m) ==
    /\ \A k \in 1..Len(m.ops) :
           /\ m.ops[k].a >= start
           /\ m.ops[k].a + Len(m.ops[k].d) <= start + FILE_SIZE
    /\ \A k \in 1..Len(m.erased) :
           /\ m.erased[k] >= start
           /\ m.erased[k] + FLASH_PAGE_SIZE <= start + FILE_SIZE

\* C36: no operation on a handle of the file writes or erases a flash byte
\* outside [start, start + FILE_SIZE): what lies behind the file is as it
\* was after any sequence of open, write, read, consume and close
C36_OnlyOwnRegion ==
    /\ BehindFile(flash) = BehindFile(Blank)
    /\ Ready =>
           /\ \A len \in WriteLens :
                  InsideFile(file_write(Now, Payload(nwritten, len), len))
           /\ \A n \in ConsumeSizes : InsideFile(file_consume(Now, n))
           /\ \A n \in ReadSizes : InsideFile(file_read(Now, n))
           /\ InsideFile(Reopened(flash))

----------------------------------------------------------------------------
(* Claims on the bytes file_write writes on *)

\* the chunk slot of len payload bytes at offset c is erased on fl
SlotErased(fl, c, len) ==
    Sub(fl, start + c + 1, start + c + len + 2) = ErasedBytes(len + 2)

\* C37: file_write writes the size byte, the payload and the state byte of
\* a record it accepts onto bytes that read 0xFF, behind the counter byte
\* of a page whose counter is set: no chunk is overwritten
C37_WritesOnErased ==
    Ready =>
        \A len \in WriteLens :
            LET m == file_write(Now, Payload(nwritten, len), len)
            IN m.ret # 0 =>
                  /\ SlotErased(flash, m.chunk, len)
                  /\ m.chunk % FLASH_PAGE_SIZE # 0
                  /\ Rd(m.fl, start + PageAt(m.chunk) * FLASH_PAGE_SIZE) # 255
                  /\ \A k \in 1..Len(live) :
                         Overlap(m.chunk, len + 2, live[k].a, live[k].a + live[k].len + 2) = 0

\* a record is accepted behind another chunk of its page, after a page has
\* been consumed and erased
C37_Witness ==
    /\ Ready
    /\ calls.c > 0
    /\ \E len \in WriteLens :
           LET m == file_write(Now, Payload(nwritten, len), len)
           IN /\ m.ret # 0
              /\ m.chunk % FLASH_PAGE_SIZE # PAGE_COUNTER_SIZE
              /\ Rd(flash, start + PageAt(m.chunk) * FLASH_PAGE_SIZE + PAGE_COUNTER_SIZE) # 255

----------------------------------------------------------------------------
(* Claims on the end of a stall *)

\* more bytes than the file can hold
DrainSize == FILE_SIZE

\* the caller reads all there is to read and consumes all it has read
Drained(m) ==
    LET r == file_read(After(m), DrainSize)
    IN file_consume(After(r), DrainSize)

\* after the caller has read and consumed all there is, file_write takes a
\* record of every length
WritesAfterDrain(m) ==
    LET d == Drained(m)
    IN \A len \in WriteLens :
           file_write(After(d), Payload(nwritten, len), len).ret = len

\* C38: the write head is never stalled for good: from every state reached
\* without power loss, once the caller has read all the data there is and
\* consumed all it has read, a file_write of a record that fits a page
\* succeeds
C38_ReadAllThenConsumeAll == Ready => (~Drained(Now).hung /\ WritesAfterDrain(Now))

\* in the states where no committed record is left unconsumed file_write
\* takes a record of every length
C38_StallEnds ==
    (Ready /\ live = <<>>) =>
        \A len \in WriteLens :
            file_write(Now, Payload(nwritten, len), len).ret = len

----------------------------------------------------------------------------
(* Claims on the size of the file *)

\* the handle file_open builds on a blank file
BlankHandle == Reopened(Blank).h

\* the three heads stand on the same byte: all that was committed has been
\* read and consumed
HeadsMeet(h) ==
    /\ h.write_offset = h.raw_read_chunk_start
    /\ h.raw_read_chunk_start = h.destructive_read_offset

\* file_size is FILE_SIZE less free_space
C39_SizeIsUsedSpace == Ready => file_size(handle) = FILE_SIZE - handle.free_space

\* file_open on a blank file leaves all of the file free but one counter
\* byte a page
C39_BlankFree ==
    BlankHandle.free_space = FILE_SIZE - PAGES_PER_FILE * PAGE_COUNTER_SIZE

\* with the three heads on the same byte free_space and file_size have the
\* values they had after file_open on a blank file
C39_BackToBlank ==
    (Ready /\ HeadsMeet(handle)) =>
        /\ handle.free_space = BlankHandle.free_space
        /\ file_size(handle) = file_size(BlankHandle)

====
